---- MODULE Spec2Model ----
(***************************************************************************)
(* Model of get_swe_normals.py: the input resolver get_month_year, the     *)
(* normals engine get_normals, the ratio computer get_percent_of_normal    *)
(* and the sequential pipeline main.                                       *)
(*                                                                         *)
(* Two specifications:                                                     *)
(*   Spec      the whole run of main(), from the prompt to the last file;  *)
(*   SpecCore  get_normals followed by get_percent_of_normal on one        *)
(*             series, for either convention, over all bounded series.     *)
(*                                                                         *)
(* Data representation                                                     *)
(*   timestamp  [y, m, d, h]  (year, month, day, hour)                     *)
(*   number     <<n, d>>: the float n/d in lowest terms, d > 0;            *)
(*              <<0, 0>> is NaN (missing), <<1, 0>> is +inf.  SWE values   *)
(*              are non-negative.                                          *)
(*   series     a function from a finite set of timestamps to numbers:     *)
(*              one grid cell of the DataArray along its time dimension.   *)
(*              Every array operation of the program, isin and sel on      *)
(*              time, mean over time, division and scaling, works cell     *)
(*              by cell, so what holds of this cell holds of every cell.   *)
(*   optional   <<>> is None / not assigned, <<v>> is the value v.         *)
(*   text       a sequence of one-character strings.                       *)
(***************************************************************************)
EXTENDS Integers, Sequences, FiniteSets

VARIABLES
    pc,                 \* position in main() (Spec) or in the call chain (SpecCore)
    err,                \* the exception that ended the run, "" when none
    today,              \* dt.datetime.today(): [year, month]
    year_input,         \* optional text typed at the year prompt
    month_input,        \* optional text typed at the month prompt
    year, month,        \* optional ints: the result of get_month_year
    snodas_up,          \* environment: the snodas store can be opened
    cop_up,             \* environment: the copernicus store can be opened
    snodas_store,       \* environment: the series held by snodas.zarr['1034']
    cop_store,          \* environment: the series held by copernicus.zarr['swe']
    snodas_writable,    \* environment: the snodas raster can be written
    cop_writable,       \* environment: the copernicus raster can be written
    fetches,            \* sequence of the container names get_dataset was called with
    snodas_da, cop_da,  \* optional series (main's locals)
    snodas_normals, copernicus_normals,                     \* optional numbers
    snodas_percent_of_normal, copernicus_percent_of_normal, \* optional numbers
    files,              \* sequence of the rasters written, in order
    snodas,             \* SpecCore: the flag passed to both functions
    da,                 \* SpecCore: the series passed to both functions
    month_firsts_da,    \* SpecCore: get_normals' local, optional series
    normals,            \* SpecCore: result of get_normals, optional number
    da_this_year_first_of_month,  \* SpecCore: get_percent_of_normal's local
    percent_of_normal   \* SpecCore: result of get_percent_of_normal

envVars  == <<snodas_up, cop_up, snodas_store, cop_store, snodas_writable, cop_writable>>
mainVars == <<today, year_input, month_input, fetches, snodas_da, cop_da,
              snodas_normals, copernicus_normals, snodas_percent_of_normal,
              copernicus_percent_of_normal, files>>
coreVars == <<snodas, da, month_firsts_da, normals, da_this_year_first_of_month,
              percent_of_normal>>
vars     == <<pc, err, year, month, envVars, mainVars, coreVars>>

None == <<>>
Some(v) == <<v>>

----------------------------------------------------------------------------
(* Bounds of the model *)

\* cell values of a series range over NaN and 0..MaxVal
MaxVal == 1
\* a series of SpecCore holds at most MaxSteps timesteps
MaxSteps == 3
\* SpecCore: target years and series years range over E..E+YearSpan
YearSpan == 2

----------------------------------------------------------------------------
(* Floats *)

NaN == <<0, 0>>
Inf == <<1, 0>>
Val(n) == <<n, 1>>

RECURSIVE GCD(_, _)
GCD(a, b) == IF b = 0 THEN a ELSE GCD(b, a % b)

\* the float n/d for naturals n, d (IEEE: 0/0 is NaN, n/0 is +inf)
Norm(n, d) ==
    IF d = 0 THEN (IF n = 0 THEN NaN ELSE Inf)
    ELSE IF n = 0 THEN <<0, 1>>
    ELSE <<n \div GCD(n, d), d \div GCD(n, d)>>

\* a / b
Div(a, b) ==
    IF a = NaN \/ b = NaN THEN NaN
    ELSE IF a = Inf THEN (IF b = Inf THEN NaN ELSE Inf)
    ELSE IF b = Inf THEN <<0, 1>>
    ELSE Norm(a[1] * b[2], a[2] * b[1])

\* a * k for a natural scalar k > 0
MulScalar(a, k) ==
    IF a = NaN THEN NaN
    ELSE IF a = Inf THEN Inf
    ELSE Norm(a[1] * k, a[2])

RECURSIVE SumOver(_, _)
SumOver(f, S) ==
    IF S = {} THEN 0
    ELSE LET t == CHOOSE x \in S : TRUE IN f[t][1] + SumOver(f, S \ {t})

\* mutant of MeanTime: the sum over max(count, 1), 0 over no valid value
MeanTimeZeroOnEmpty(sel) ==
    LET valid == {t \in DOMAIN sel : sel[t] # NaN}
    IN  IF valid = {} THEN Val(0) ELSE Norm(SumOver(sel, valid), Cardinality(valid))

\* DataArray.mean(dim='time') of a float array: skipna, NaN over no valid value
MeanTime(sel) ==
    LET valid == {t \in DOMAIN sel : sel[t] # NaN}
    IN  IF valid = {} THEN NaN ELSE Norm(SumOver(sel, valid), Cardinality(valid))

----------------------------------------------------------------------------
(* Timestamps and pandas.date_range(start, end, freq="AS") *)

Ts(y, m, d, h) == [y |-> y, m |-> m, d |-> d, h |-> h]

TsLeq(a, b) ==
    \/ a.y < b.y
    \/ a.y = b.y /\ a.m < b.m
    \/ a.y = b.y /\ a.m = b.m /\ a.d < b.d
    \/ a.y = b.y /\ a.m = b.m /\ a.d = b.d /\ a.h <= b.h

\* YearBegin(month=1).is_on_offset
YearBeginOnOffset(t) == t.m = 1 /\ t.d = 1

\* YearBegin(month=1).rollforward: the next 1 January, time of day kept
YearBeginRollForward(t) ==
    IF YearBeginOnOffset(t) THEN t ELSE Ts(t.y + 1, 1, 1, t.h)

\* "AS" is the alias of YearBegin(month=1): the range holds every 1 January
\* (at start's time of day) from start rolled forward up to end
DateRangeAS(start, end) ==
    LET first == YearBeginRollForward(start)
    IN  {t \in {Ts(yy, 1, 1, first.h) : yy \in first.y .. end.y} : TsLeq(t, end)}

----------------------------------------------------------------------------
(* get_normals and get_percent_of_normal *)

\* da.sel(time=da.time.isin(stamps))
SelIsin(series, stamps) == [t \in (DOMAIN series) \cap stamps |-> series[t]]

\* mutant of SelTime: da.sel(time=stamp, method="pad"), the last label at
\* or before the stamp
SelTimePad(series, stamp) ==
    LET before == {t \in DOMAIN series : TsLeq(t, stamp)}
    IN  IF before = {} THEN None
        ELSE Some(series[CHOOSE t \in before : \A u \in before : TsLeq(u, t)])

\* da.sel(time=stamp): the exact label or KeyError (None)
SelTime(series, stamp) ==
    IF stamp \in DOMAIN series THEN Some(series[stamp]) ELSE None

\* mutant of MonthFirsts: the range ends at the target year
MonthFirstsThroughTarget(y, m, isSnodas) ==
    IF isSnodas
    THEN DateRangeAS(Ts(2008, m, 1, 5), Ts(y, m, 1, 5))
    ELSE DateRangeAS(Ts(2000, m, 1, 0), Ts(y, m, 1, 0))

MonthFirsts(y, m, isSnodas) ==
    IF isSnodas
    THEN DateRangeAS(Ts(2008, m, 1, 5), Ts(y - 1, m, 1, 5))
    ELSE DateRangeAS(Ts(2000, m, 1, 0), Ts(y - 1, m, 1, 0))

MonthFirstsDa(series, y, m, isSnodas) == SelIsin(series, MonthFirsts(y, m, isSnodas))

GetNormals(series, y, m, isSnodas) == MeanTime(MonthFirstsDa(series, y, m, isSnodas))

FirstOfMonth(y, m, isSnodas) ==
    IF isSnodas THEN Ts(y, m, 1, 5) ELSE Ts(y, m, 1, 0)

\* the selected timestep, None when da.sel raises KeyError
ThisYearFirstOfMonth(series, y, m, isSnodas) ==
    SelTime(series, FirstOfMonth(y, m, isSnodas))

\* mutant of PercentOf: the ratio inverted
PercentOfInverted(target, nrm) == MulScalar(Div(nrm, target), 100)

\* (da_this_year_first_of_month / normals) * 100
PercentOf(target, nrm) == MulScalar(Div(target, nrm), 100)

\* mutant of GetPercentOfNormal: a missing target stamp yields a missing
\* grid instead of raising
GetPercentOfNormalFillMissing(series, nrm, y, m, isSnodas) ==
    LET sel == ThisYearFirstOfMonth(series, y, m, isSnodas)
    IN  IF sel = None THEN Some(NaN) ELSE Some(PercentOf(sel[1], nrm))

\* None when the function raises, else the percent of normal
GetPercentOfNormal(series, nrm, y, m, isSnodas) ==
    LET sel == ThisYearFirstOfMonth(series, y, m, isSnodas)
    IN  IF sel = None THEN None ELSE Some(PercentOf(sel[1], nrm))

----------------------------------------------------------------------------
(* Series of the model *)

Vals == {NaN} \cup {Val(v) : v \in 0 .. MaxVal}

\* every series over at most maxLen timestamps of pool with values in vals
AllSeries(pool, vals, maxLen) ==
    UNION {[P -> vals] : P \in {Q \in SUBSET pool : Cardinality(Q) <= maxLen}}

CoreMonths == {1, 3}

\* the two conventions: the first year of get_normals' range, the hour of
\* the first-of-month stamps
EarliestYear(isSnodas) == IF isSnodas THEN 2008 ELSE 2000

AnchorHour(isSnodas) == IF isSnodas THEN 5 ELSE 0

CoreYears(isSnodas) == EarliestYear(isSnodas) .. EarliestYear(isSnodas) + YearSpan

\* first-of-month stamps at the convention's hour, and two near misses of
\* the January stamp of the second year: the other convention's hour, day 2
CorePool(isSnodas) ==
    LET h  == AnchorHour(isSnodas)
        h2 == AnchorHour(~isSnodas)
        y1 == EarliestYear(isSnodas) + 1
    IN  {Ts(yy, mm, 1, h) : yy \in CoreYears(isSnodas), mm \in CoreMonths}
        \cup {Ts(y1, 1, 1, h2), Ts(y1, 1, 2, h)}

----------------------------------------------------------------------------
(* SpecCore: get_normals, then get_percent_of_normal, on one series *)

MainIdle ==
    /\ today = [year |-> 0, month |-> 0]
    /\ year_input = None /\ month_input = None
    /\ snodas_up = TRUE /\ cop_up = TRUE
    /\ snodas_store = <<>> /\ cop_store = <<>>
    /\ snodas_writable = TRUE /\ cop_writable = TRUE
    /\ fetches = <<>>
    /\ snodas_da = None /\ cop_da = None
    /\ snodas_normals = None /\ copernicus_normals = None
    /\ snodas_percent_of_normal = None /\ copernicus_percent_of_normal = None
    /\ files = <<>>

InitCore ==
    /\ MainIdle
    /\ pc = "core_normals"
    /\ err = ""
    /\ snodas \in BOOLEAN
    /\ \E yy \in CoreYears(snodas) : year = Some(yy)
    /\ \E mm \in CoreMonths : month = Some(mm)
    /\ da \in AllSeries(CorePool(snodas), Vals, MaxSteps)
    /\ month_firsts_da = None
    /\ normals = None
    /\ da_this_year_first_of_month = None
    /\ percent_of_normal = None

CallGetNormals ==
    /\ pc = "core_normals"
    /\ month_firsts_da' = Some(MonthFirstsDa(da, year[1], month[1], snodas))
    /\ normals' = Some(GetNormals(da, year[1], month[1], snodas))
    /\ pc' = "core_percent"
    /\ UNCHANGED <<err, year, month, envVars, mainVars, snodas, da,
                   da_this_year_first_of_month, percent_of_normal>>

CallGetPercentOfNormal ==
    /\ pc = "core_percent"
    /\ da_this_year_first_of_month' = ThisYearFirstOfMonth(da, year[1], month[1], snodas)
    /\ percent_of_normal' = GetPercentOfNormal(da, normals[1], year[1], month[1], snodas)
    /\ IF GetPercentOfNormal(da, normals[1], year[1], month[1], snodas) = None
       THEN pc' = "core_raised" /\ err' = "KeyError"
       ELSE pc' = "core_done" /\ err' = err
    /\ UNCHANGED <<year, month, envVars, mainVars, snodas, da, month_firsts_da, normals>>

NextCore == CallGetNormals \/ CallGetPercentOfNormal

SpecCore == InitCore /\ [][NextCore]_vars

----------------------------------------------------------------------------
(* Texts: int(text), str(n), and the prompt default *)

Digits == <<"0", "1", "2", "3", "4", "5", "6", "7", "8", "9">>

IsDigit(c) == \E i \in 1 .. 10 : Digits[i] = c

DigitVal(c) == (CHOOSE i \in 1 .. 10 : Digits[i] = c) - 1

\* str.strip() of the blanks at both ends
RECURSIVE Strip(_)
Strip(s) ==
    IF s = <<>> THEN s
    ELSE IF Head(s) = " " THEN Strip(Tail(s))
    ELSE IF s[Len(s)] = " " THEN Strip(SubSeq(s, 1, Len(s) - 1))
    ELSE s

\* a digit string with single underscores between digits
IsIntBody(s) ==
    /\ s # <<>>
    /\ IsDigit(s[1])
    /\ IsDigit(s[Len(s)])
    /\ \A i \in 1 .. Len(s) : IsDigit(s[i]) \/ s[i] = "_"
    /\ \A i \in 1 .. Len(s) - 1 : ~(s[i] = "_" /\ s[i + 1] = "_")

RECURSIVE BodyValue(_, _)
BodyValue(s, acc) ==
    IF s = <<>> THEN acc
    ELSE IF Head(s) = "_" THEN BodyValue(Tail(s), acc)
    ELSE BodyValue(Tail(s), 10 * acc + DigitVal(Head(s)))

\* int(text): Some(n), or None for ValueError
ParseInt(text) ==
    LET t    == Strip(text)
        sgn  == t # <<>> /\ Head(t) \in {"+", "-"}
        body == IF sgn THEN Tail(t) ELSE t
    IN  IF ~IsIntBody(body) THEN None
        ELSE IF sgn /\ Head(t) = "-" THEN Some(0 - BodyValue(body, 0))
        ELSE Some(BodyValue(body, 0))

\* str(n) for n >= 0
RECURSIVE Str(_)
Str(n) ==
    IF n < 10 THEN <<Digits[n + 1]>>
    ELSE Str(n \div 10) \o <<Digits[(n % 10) + 1]>>

\* input(...) or default
InputOr(text, default) == IF text = <<>> THEN default ELSE text

----------------------------------------------------------------------------
(* get_month_year *)

\* mutant of ReadYear: the bounds of the range excluded
ReadYearExclusive(text, td) ==
    LET p == ParseInt(InputOr(text, Str(td.year)))
    IN  IF p = None THEN None
        ELSE IF p[1] <= 1900 \/ p[1] >= 2100 THEN None
        ELSE p

\* the year prompt: Some(year), or None where the function returns None, None
ReadYear(text, td) ==
    LET p == ParseInt(InputOr(text, Str(td.year)))
    IN  IF p = None THEN None
        ELSE IF p[1] < 1900 \/ p[1] > 2100 THEN None
        ELSE p

\* mutant of ReadMonth: no upper bound on the month
ReadMonthNoUpperBound(text, td) ==
    LET p == ParseInt(InputOr(text, Str(td.month)))
    IN  IF p = None THEN None
        ELSE IF p[1] < 1 THEN None
        ELSE p

\* the month prompt: Some(month), or None where the function returns None, None
ReadMonth(text, td) ==
    LET p == ParseInt(InputOr(text, Str(td.month)))
    IN  IF p = None THEN None
        ELSE IF p[1] < 1 \/ p[1] > 12 THEN None
        ELSE p

----------------------------------------------------------------------------
(* Inputs and environment of a run of main *)

YearTexts ==
    { <<>>,
      <<"a", "b", "c">>,
      <<"2", "0", "1", "0">>,
      <<" ", "2", "0", "1", "0">>,
      <<"2", "0", "1", "0", ".", "0">>,
      <<"1", "8", "9", "9">>,
      <<"1", "9", "0", "0">>,
      <<"2", "1", "0", "0">>,
      <<"2", "1", "0", "1">>,
      <<"-", "5">> }

MonthTexts ==
    { <<>>,
      <<"x">>,
      <<" ">>,
      <<"0">>,
      <<"1">>,
      <<"2">>,
      <<"0", "2">>,
      <<"1", "2">>,
      <<"1", "3">> }

Todays == {[year |-> 2010, month |-> 2], [year |-> 2026, month |-> 11]}

\* what a store may hold: a past January stamp, the stamp of February 2010
\* and the stamp of February 2010 at the other convention's hour
MainPool(isSnodas) ==
    LET h  == AnchorHour(isSnodas)
        h2 == AnchorHour(~isSnodas)
    IN  {Ts(2009, 1, 1, h), Ts(2010, 2, 1, h), Ts(2010, 2, 1, h2)}

MainStores(isSnodas) == AllSeries(MainPool(isSnodas), {Val(1)}, Cardinality(MainPool(isSnodas)))

MonthAbbr ==
    <<"jan", "feb", "mar", "apr", "may", "jun", "jul", "aug", "sep", "oct", "nov", "dec">>

\* f"{family}_prcnt_of_norm_{month_str}_{year}.tif"
OutputFilename(family, y, m) ==
    [family |-> family, month_str |-> MonthAbbr[m], year |-> y]

----------------------------------------------------------------------------
(* Spec: main() *)

CoreIdle ==
    /\ snodas = TRUE
    /\ da = <<>>
    /\ month_firsts_da = None
    /\ normals = None
    /\ da_this_year_first_of_month = None
    /\ percent_of_normal = None

Init ==
    /\ CoreIdle
    /\ pc = "start"
    /\ err = ""
    /\ today \in Todays
    /\ year_input = None /\ month_input = None
    /\ year = None /\ month = None
    /\ snodas_up \in BOOLEAN /\ cop_up \in BOOLEAN
    /\ snodas_store \in MainStores(TRUE)
    /\ cop_store \in MainStores(FALSE)
    /\ snodas_writable \in BOOLEAN /\ cop_writable \in BOOLEAN
    /\ fetches = <<>>
    /\ snodas_da = None /\ cop_da = None
    /\ snodas_normals = None /\ copernicus_normals = None
    /\ snodas_percent_of_normal = None /\ copernicus_percent_of_normal = None
    /\ files = <<>>

\* lines 99-102, the year prompt fails: get_month_year returns None, None
\* before the month prompt, main prints and returns
MainInvalidYear ==
    /\ pc = "start"
    /\ \E yt \in YearTexts :
          /\ ReadYear(yt, today) = None
          /\ year_input' = Some(yt)
    /\ month_input' = None
    /\ year' = None /\ month' = None
    /\ pc' = "returned"
    /\ UNCHANGED <<err, envVars, today, fetches, snodas_da, cop_da, snodas_normals,
                   copernicus_normals, snodas_percent_of_normal,
                   copernicus_percent_of_normal, files, coreVars>>

\* lines 99-102, the year prompt succeeds and the month prompt fails
MainInvalidMonth ==
    /\ pc = "start"
    /\ \E yt \in YearTexts, mt \in MonthTexts :
          /\ ReadYear(yt, today) # None
          /\ ReadMonth(mt, today) = None
          /\ year_input' = Some(yt)
          /\ month_input' = Some(mt)
    /\ year' = None /\ month' = None
    /\ pc' = "returned"
    /\ UNCHANGED <<err, envVars, today, fetches, snodas_da, cop_da, snodas_normals,
                   copernicus_normals, snodas_percent_of_normal,
                   copernicus_percent_of_normal, files, coreVars>>

\* lines 99-102, both prompts succeed
MainValidInput ==
    /\ pc = "start"
    /\ \E yt \in YearTexts, mt \in MonthTexts :
          /\ ReadYear(yt, today) # None
          /\ ReadMonth(mt, today) # None
          /\ year_input' = Some(yt)
          /\ month_input' = Some(mt)
          /\ year' = ReadYear(yt, today)
          /\ month' = ReadMonth(mt, today)
    /\ pc' = "fetch_snodas"
    /\ UNCHANGED <<err, envVars, today, fetches, snodas_da, cop_da, snodas_normals,
                   copernicus_normals, snodas_percent_of_normal,
                   copernicus_percent_of_normal, files, coreVars>>

\* lines 105-112: get_dataset('snodas-v1', ...) and the spatial subset
FetchSnodas ==
    /\ pc = "fetch_snodas"
    /\ fetches' = Append(fetches, "snodas-v1")
    /\ IF snodas_up
       THEN snodas_da' = Some(snodas_store) /\ pc' = "fetch_copernicus" /\ err' = err
       ELSE snodas_da' = snodas_da /\ pc' = "crashed" /\ err' = "DataSourceUnavailable"
    /\ UNCHANGED <<year, month, envVars, today, year_input, month_input, cop_da,
                   snodas_normals, copernicus_normals, snodas_percent_of_normal,
                   copernicus_percent_of_normal, files, coreVars>>

\* lines 115-121: get_dataset('copernicus', ...) and the spatial subset
FetchCopernicus ==
    /\ pc = "fetch_copernicus"
    /\ fetches' = Append(fetches, "copernicus")
    /\ IF cop_up
       THEN cop_da' = Some(cop_store) /\ pc' = "normals_snodas" /\ err' = err
       ELSE cop_da' = cop_da /\ pc' = "crashed" /\ err' = "DataSourceUnavailable"
    /\ UNCHANGED <<year, month, envVars, today, year_input, month_input, snodas_da,
                   snodas_normals, copernicus_normals, snodas_percent_of_normal,
                   copernicus_percent_of_normal, files, coreVars>>

\* line 124
NormalsSnodas ==
    /\ pc = "normals_snodas"
    /\ snodas_normals' = Some(GetNormals(snodas_da[1], year[1], month[1], TRUE))
    /\ pc' = "normals_copernicus"
    /\ UNCHANGED <<err, year, month, envVars, today, year_input, month_input, fetches,
                   snodas_da, cop_da, copernicus_normals, snodas_percent_of_normal,
                   copernicus_percent_of_normal, files, coreVars>>

\* line 126
NormalsCopernicus ==
    /\ pc = "normals_copernicus"
    /\ copernicus_normals' = Some(GetNormals(cop_da[1], year[1], month[1], FALSE))
    /\ pc' = "percent_snodas"
    /\ UNCHANGED <<err, year, month, envVars, today, year_input, month_input, fetches,
                   snodas_da, cop_da, snodas_normals, snodas_percent_of_normal,
                   copernicus_percent_of_normal, files, coreVars>>

\* lines 128-133: the KeyError of da.sel is not caught
PercentSnodas ==
    /\ pc = "percent_snodas"
    /\ snodas_percent_of_normal' =
          GetPercentOfNormal(snodas_da[1], snodas_normals[1], year[1], month[1], TRUE)
    /\ IF GetPercentOfNormal(snodas_da[1], snodas_normals[1], year[1], month[1], TRUE) = None
       THEN pc' = "crashed" /\ err' = "KeyError"
       ELSE pc' = "percent_copernicus" /\ err' = err
    /\ UNCHANGED <<year, month, envVars, today, year_input, month_input, fetches,
                   snodas_da, cop_da, snodas_normals, copernicus_normals,
                   copernicus_percent_of_normal, files, coreVars>>

\* lines 135-139
PercentCopernicus ==
    /\ pc = "percent_copernicus"
    /\ copernicus_percent_of_normal' =
          GetPercentOfNormal(cop_da[1], copernicus_normals[1], year[1], month[1], FALSE)
    /\ IF GetPercentOfNormal(cop_da[1], copernicus_normals[1], year[1], month[1], FALSE) = None
       THEN pc' = "crashed" /\ err' = "KeyError"
       ELSE pc' = "write_snodas" /\ err' = err
    /\ UNCHANGED <<year, month, envVars, today, year_input, month_input, fetches,
                   snodas_da, cop_da, snodas_normals, copernicus_normals,
                   snodas_percent_of_normal, files, coreVars>>

\* lines 141-149: both grids are tagged with the CRS, then the snodas raster
\* is written; a failing to_raster raises and is not caught
WriteSnodas ==
    /\ pc = "write_snodas"
    /\ IF snodas_writable
       THEN /\ files' = Append(files, OutputFilename("snodas", year[1], month[1]))
            /\ pc' = "write_copernicus" /\ err' = err
       ELSE files' = files /\ pc' = "crashed" /\ err' = "RasterWriteFailure"
    /\ UNCHANGED <<year, month, envVars, today, year_input, month_input, fetches,
                   snodas_da, cop_da, snodas_normals, copernicus_normals,
                   snodas_percent_of_normal, copernicus_percent_of_normal, coreVars>>

\* lines 151-153
WriteCopernicus ==
    /\ pc = "write_copernicus"
    /\ IF cop_writable
       THEN /\ files' = Append(files, OutputFilename("copernicus", year[1], month[1]))
            /\ pc' = "done" /\ err' = err
       ELSE files' = files /\ pc' = "crashed" /\ err' = "RasterWriteFailure"
    /\ UNCHANGED <<year, month, envVars, today, year_input, month_input, fetches,
                   snodas_da, cop_da, snodas_normals, copernicus_normals,
                   snodas_percent_of_normal, copernicus_percent_of_normal, coreVars>>

Next ==
    \/ MainInvalidYear
    \/ MainInvalidMonth
    \/ MainValidInput
    \/ FetchSnodas
    \/ FetchCopernicus
    \/ NormalsSnodas
    \/ NormalsCopernicus
    \/ PercentSnodas
    \/ PercentCopernicus
    \/ WriteSnodas
    \/ WriteCopernicus

Spec == Init /\ [][Next]_vars

\* the run of main is over
Ended == pc \in {"returned", "crashed", "done"}

----------------------------------------------------------------------------
(* Properties of get_normals and get_percent_of_normal (SpecCore) *)

\* get_normals has returned
NormalsDone == pc \in {"core_percent", "core_done", "core_raised"}

\* the anchor stamp of year yy for the call's month and convention
Anchor(yy) == Ts(yy, month[1], 1, AnchorHour(snodas))

\* the stamps of the series that are anchors of the years E .. year-1
HistoricalAnchors ==
    {t \in DOMAIN da : \E yy \in EarliestYear(snodas) .. year[1] - 1 : t = Anchor(yy)}

IsFinite(x) == x[2] # 0

\* C1: for either convention and every target (year, month), get_normals
\* averages exactly the stamps of the series equal to (y, month, 1, anchor
\* hour) for some y in earliest year .. year-1, and the normal is the
\* arithmetic mean of the cell over those stamps.
C1_AveragesMonthAnchors ==
    NormalsDone =>
        /\ DOMAIN month_firsts_da[1] = HistoricalAnchors
        /\ normals[1] = MeanTime([t \in HistoricalAnchors |-> da[t]])

\* C2: no timestep of a calendar year greater than or equal to the target
\* year is among the timesteps get_normals averages.
C2_NoYearFromTargetOn ==
    NormalsDone => \A t \in DOMAIN month_firsts_da[1] : t.y < year[1]

\* C2 witness: timesteps were averaged while the series also holds a
\* timestep of the target year or later
C2_Witness ==
    /\ NormalsDone
    /\ DOMAIN month_firsts_da[1] # {}
    /\ \E t \in DOMAIN da : t.y >= year[1]

\* C3 as stated: the result is 100 * (target / normal), and every cell whose
\* target value equals its normal value yields exactly 100.
C3_EqualYieldsHundred ==
    pc = "core_done" =>
        LET t == da_this_year_first_of_month[1]
            n == normals[1]
        IN  /\ percent_of_normal[1] = MulScalar(Div(t, n), 100)
            /\ (t # NaN /\ t = n => percent_of_normal[1] = Val(100))

\* C3 amended: the result is the exact ratio scaled by 100, unclamped;
\* a cell whose target equals its normal yields exactly 100 when that value
\* is present and not zero; 0 over 0 and any missing operand yield NaN, a
\* positive target over a zero normal yields +inf.
C3_ExactRatio ==
    pc = "core_done" =>
        LET t == da_this_year_first_of_month[1]
            n == normals[1]
            p == percent_of_normal[1]
        IN  /\ (IsFinite(t) /\ IsFinite(n) /\ n[1] # 0 =>
                    /\ IsFinite(p)
                    /\ p[1] * n[1] * t[2] = 100 * t[1] * n[2] * p[2])
            /\ (IsFinite(t) /\ t = n /\ t[1] # 0 => p = Val(100))
            /\ (t = Val(0) /\ n = Val(0) => p = NaN)
            /\ (t = NaN \/ n = NaN => p = NaN)
            /\ (IsFinite(t) /\ t[1] # 0 /\ n = Val(0) => p = Inf)

\* C3 witness: a target equal to a non-zero normal that is the mean of at
\* least one averaged timestep
C3_Witness ==
    /\ pc = "core_done"
    /\ da_this_year_first_of_month[1] = normals[1]
    /\ IsFinite(normals[1]) /\ normals[1][1] # 0
    /\ DOMAIN month_firsts_da[1] # {}
    /\ percent_of_normal[1] = Val(100)

\* C4: get_percent_of_normal takes the target from exactly the stamp
\* (year, month, 1, anchor hour); when the series lacks that stamp the call
\* raises and yields nothing, whatever other stamps the series holds.
C4_ExactTargetOrFail ==
    pc \in {"core_done", "core_raised"} =>
        IF Anchor(year[1]) \in DOMAIN da
        THEN /\ pc = "core_done"
             /\ da_this_year_first_of_month = Some(da[Anchor(year[1])])
             /\ percent_of_normal # None
        ELSE /\ pc = "core_raised"
             /\ err = "KeyError"
             /\ da_this_year_first_of_month = None
             /\ percent_of_normal = None

\* C4 witness: the call raised although the series holds a stamp of the
\* target month and year (another hour or day) and an earlier stamp
C4_Witness ==
    /\ pc = "core_raised"
    /\ \E t \in DOMAIN da : t.y = year[1] /\ t.m = month[1]
    /\ \E t \in DOMAIN da : t.y < year[1]

\* C9 as stated: at target year = earliest valid year + 1 get_normals finds
\* zero historical anchors for every month and yields an all-missing normal.
C9_ZeroAnchorsAtEarliestPlusOne ==
    NormalsDone /\ year[1] = EarliestYear(snodas) + 1 =>
        /\ DOMAIN month_firsts_da[1] = {}
        /\ normals[1] = NaN

\* C9 amended: at a target year up to the earliest valid year get_normals
\* finds zero anchors for every month; at the earliest valid year + 1 the
\* only possible anchor is the one of the earliest year itself (k <= 1);
\* and whenever k = 0 the call returns a missing (NaN) normal and does not
\* raise.
C9_UndefinedNormal ==
    NormalsDone =>
        /\ (year[1] <= EarliestYear(snodas) => DOMAIN month_firsts_da[1] = {})
        /\ (year[1] = EarliestYear(snodas) + 1 =>
                DOMAIN month_firsts_da[1] \subseteq {Anchor(EarliestYear(snodas))})
        /\ (DOMAIN month_firsts_da[1] = {} => normals = Some(NaN))

\* C9 witness: the target year is the earliest valid year, the series holds
\* that year's anchor with a value, and the normal is missing
C9_Witness ==
    /\ NormalsDone
    /\ year[1] = EarliestYear(snodas)
    /\ Anchor(year[1]) \in DOMAIN da
    /\ da[Anchor(year[1])] # NaN
    /\ normals = Some(NaN)

----------------------------------------------------------------------------
(* Properties of get_month_year and main (Spec) *)

\* the text, or the default's str when it is empty, parses as an integer
\* in lo .. hi
TextInRange(text, default, lo, hi) ==
    LET p == ParseInt(IF text = <<>> THEN Str(default) ELSE text)
    IN  p # None /\ lo <= p[1] /\ p[1] <= hi

YearTextValid ==
    year_input # None /\ TextInRange(year_input[1], today.year, 1900, 2100)

\* the month prompt is reached only after a valid year
MonthTextValid ==
    month_input # None /\ TextInRange(month_input[1], today.month, 1, 12)

Range(seq) == {seq[i] : i \in 1 .. Len(seq)}

\* the target stamp of the run for a dataset family
TargetStamp(isSnodas) == Ts(year[1], month[1], 1, AnchorHour(isSnodas))

\* C5: when the year text or the month text does not parse as an integer in
\* range, the run ends before any call to get_dataset and writes no file.
C5_InvalidInputNoIO ==
    pc # "start" /\ ~(YearTextValid /\ MonthTextValid) =>
        /\ pc = "returned"
        /\ fetches = <<>>
        /\ files = <<>>

\* C5 witness: a valid year text followed by an invalid month text
C5_Witness ==
    /\ pc = "returned"
    /\ YearTextValid
    /\ month_input # None /\ ~MonthTextValid
    /\ fetches = <<>>

\* C6: a failed fetch of one family aborts only that family's branch (the
\* other family's raster is still produced), and no fetch is retried.
C6_FetchFailureIsolated ==
    Ended /\ year # None =>
        /\ (~snodas_up /\ cop_up /\ cop_writable
              /\ TargetStamp(FALSE) \in DOMAIN cop_store
            => OutputFilename("copernicus", year[1], month[1]) \in Range(files))
        /\ (~cop_up /\ snodas_up /\ snodas_writable
              /\ TargetStamp(TRUE) \in DOMAIN snodas_store
            => OutputFilename("snodas", year[1], month[1]) \in Range(files))
        /\ \A i, j \in 1 .. Len(fetches) : fetches[i] = fetches[j] => i = j

\* C7: a raster write failure of one family aborts only that family's
\* branch: the other family's raster is still written.
C7_WriteFailureIsolated ==
    (/\ Ended /\ year # None
     /\ snodas_up /\ cop_up
     /\ TargetStamp(TRUE) \in DOMAIN snodas_store
     /\ TargetStamp(FALSE) \in DOMAIN cop_store) =>
        /\ (~snodas_writable /\ cop_writable
            => OutputFilename("copernicus", year[1], month[1]) \in Range(files))
        /\ (~cop_writable /\ snodas_writable
            => OutputFilename("snodas", year[1], month[1]) \in Range(files))

\* C8: get_month_year returns (year, month) with 1900 <= year <= 2100 and
\* 1 <= month <= 12, the integers the texts stand for, exactly when both
\* texts parse in range (an empty text standing for today's year or month),
\* and (None, None) in every other case.  The month text is asked for
\* exactly when the year text is valid.
C8_ValidPairOrNone ==
    pc # "start" =>
        /\ year_input # None
        /\ (month_input # None <=> YearTextValid)
        /\ IF YearTextValid /\ MonthTextValid
           THEN /\ year = ParseInt(IF year_input[1] = <<>> THEN Str(today.year)
                                   ELSE year_input[1])
                /\ month = ParseInt(IF month_input[1] = <<>> THEN Str(today.month)
                                    ELSE month_input[1])
                /\ 1900 <= year[1] /\ year[1] <= 2100
                /\ 1 <= month[1] /\ month[1] <= 12
           ELSE year = None /\ month = None

\* C8 witness: both texts empty, today's year and month returned
C8_Witness ==
    /\ pc # "start"
    /\ year_input = Some(<<>>) /\ month_input = Some(<<>>)
    /\ year = Some(today.year) /\ month = Some(today.month)

\* C10: no file is written before both datasets are fetched and both
\* percent-of-normal grids are computed; the snodas file is written before
\* the copernicus file; a run in which a fetch fails or a dataset lacks the
\* target stamp ends with no file written.
C10_WritesLastSnodasFirst ==
    /\ (files # <<>> =>
            /\ fetches = <<"snodas-v1", "copernicus">>
            /\ snodas_da # None /\ cop_da # None
            /\ snodas_percent_of_normal # None
            /\ copernicus_percent_of_normal # None)
    /\ Len(files) <= 2
    /\ (Len(files) >= 1 => files[1] = OutputFilename("snodas", year[1], month[1]))
    /\ (Len(files) = 2 => files[2] = OutputFilename("copernicus", year[1], month[1]))
    /\ (/\ Ended /\ year # None
        /\ \/ ~snodas_up
           \/ ~cop_up
           \/ TargetStamp(TRUE) \notin DOMAIN snodas_store
           \/ TargetStamp(FALSE) \notin DOMAIN cop_store
        => files = <<>>)

\* C10 witness: the snodas percent of normal was computed, the copernicus
\* series lacks the target stamp, and the run ended with no file
C10_Witness ==
    /\ pc = "crashed" /\ err = "KeyError"
    /\ snodas_percent_of_normal # None
    /\ copernicus_percent_of_normal = None
    /\ cop_da # None /\ DOMAIN cop_da[1] # {}
    /\ files = <<>>

====
